---------------------------- MODULE Spec2Model ----------------------------
(***************************************************************************)
(* Model of deploy.py, the release orchestrator of pymercury.              *)
(*                                                                         *)
(* Text is modelled as a sequence of tokens.  A token is one character,    *)
(* except "W", which stands for the ten characters  version =  followed by *)
(* a space (the literal prefix of the version pattern up to, but not       *)
(* including, its opening quote).  "Q" is the double quote, "N" the        *)
(* newline, "S" a space, "1" "2" "9" decimal digits, "." the dot, "a" "b"  *)
(* ordinary characters, "y" "Y" "n" the letters typed at a prompt.         *)
(*                                                                         *)
(* A file is a record [exists, data].                                      *)
(***************************************************************************)
EXTENDS Integers, Sequences, FiniteSets, TLC

VARIABLES
    argv,            \* sys.argv[1:], a sequence of strings
    depsOk,          \* whether "import build" and "import twine" succeed
    manifest,        \* the file pyproject.toml
    backup,          \* the file pyproject.toml.backup
    dist,            \* the directory dist/: "absent", "empty" or "nonempty"
    pc,              \* position in the program
    inMain,          \* TRUE when update_version was called by main
    version,         \* main's local version / the argument of the function called
    current_version, \* main's local current_version
    content,         \* update_version's local content
    success,         \* main's local success (result of the last run_command)
    response,        \* main's local response
    result,          \* return value of the last validate_version / update_version
    raised,          \* exception that left update_version, "none" if it returned
    exitCode,        \* exit status of the process, -1 while it runs
    msg,             \* last error or warning line printed
    cmds,            \* the shell commands run so far, in order
    prompts,         \* number of confirmation prompts shown
    restoreCalls,    \* number of calls of restore_backup
    mutated,         \* TRUE once pyproject.toml has been opened for writing
    manifest0,       \* pyproject.toml as it was when the run started
    backup0,         \* pyproject.toml.backup as it was when the run started
    dist0            \* dist/ as it was when the run started

vars == <<argv, depsOk, manifest, backup, dist, pc, inMain, version,
          current_version, content, success, response, result, raised,
          exitCode, msg, cmds, prompts, restoreCalls, mutated, manifest0,
          backup0, dist0>>

(***************************************************************************)
(* Bounds                                                                  *)
(***************************************************************************)
MaxLen == 6      \* longest argument string given to validate_version alone
MaxLines == 2    \* most lines of a manifest given to update_version alone

(***************************************************************************)
(* Text                                                                    *)
(***************************************************************************)
Digit == {"1", "2", "9"}

NoFile == [exists |-> FALSE, data |-> <<>>]
File(d) == [exists |-> TRUE, data |-> d]

None == [some |-> FALSE, val |-> <<>>]
Some(v) == [some |-> TRUE, val |-> v]

RECURSIVE SkipDigits(_, _)
\* [0-9]+ is greedy: the index just after the run of digits that starts at i.
\* What may follow the run in the pattern (a dot, or the end) is never a digit,
\* so backtracking into the run cannot produce another match.
SkipDigits(s, i) ==
    IF i <= Len(s) /\ s[i] \in Digit THEN SkipDigits(s, i + 1) ELSE i

\* $ without re.MULTILINE: at the end of the string, or just before a newline
\* that is the last character of the string.
AtDollar(s, i) ==
    \/ i = Len(s) + 1
    \/ i = Len(s) /\ s[i] = "N"

\* re.match(r'^[0-9]+\.[0-9]+\.[0-9]+$', version) is not None
validate_version(s) ==
    LET i1 == SkipDigits(s, 1)
        i2 == SkipDigits(s, i1 + 1)
        i3 == SkipDigits(s, i2 + 1)
    IN  /\ i1 > 1
        /\ i1 <= Len(s) /\ s[i1] = "."
        /\ i2 > i1 + 1
        /\ i2 <= Len(s) /\ s[i2] = "."
        /\ i3 > i2 + 1
        /\ AtDollar(s, i3)

RECURSIVE SkipNonQuote(_, _)
\* [^"]+ is greedy and what follows it in the pattern is a quote: the index
\* just after the run of non-quote characters (newlines included) from i.
SkipNonQuote(s, i) ==
    IF i <= Len(s) /\ s[i] # "Q" THEN SkipNonQuote(s, i + 1) ELSE i

\* ^ with re.MULTILINE: at the start of the string or just after a newline.
AtLineStart(s, i) == i = 1 \/ s[i - 1] = "N"

\* The pattern ^version = "[^"]+" tried at index i of s: the index just after
\* the match, 0 when there is no match at i.
MatchEnd(s, i) ==
    IF /\ AtLineStart(s, i)
       /\ i + 1 <= Len(s)
       /\ s[i] = "W"
       /\ s[i + 1] = "Q"
    THEN LET j == SkipNonQuote(s, i + 2)
         IN  IF j > i + 2 /\ j <= Len(s) THEN j + 1 ELSE 0
    ELSE 0

RECURSIVE SearchFrom(_, _)
\* re.search: the leftmost index at or after i where the pattern matches, 0 if none.
SearchFrom(s, i) ==
    IF i > Len(s) THEN 0
    ELSE IF MatchEnd(s, i) > 0 THEN i
    ELSE SearchFrom(s, i + 1)

\* get_current_version on the file f: group 1 of the first match, None when
\* the file is missing (FileNotFoundError is caught) or nothing matches.
get_current_version(f) ==
    IF ~f.exists THEN None
    ELSE LET i == SearchFrom(f.data, 1)
         IN  IF i = 0 THEN None
             ELSE Some(SubSeq(f.data, i + 2, MatchEnd(f.data, i) - 2))

RECURSIVE SubFrom(_, _, _)
\* re.sub(r'^version = "[^"]+"', f'version = "{new_version}"', content,
\* flags=re.MULTILINE) from index i on: no count is given, so every
\* non-overlapping match, left to right, is replaced.  (The tokens have no
\* backslash, so the replacement template is taken literally.)
SubFrom(s, v, i) ==
    IF i > Len(s) THEN <<>>
    ELSE LET e == MatchEnd(s, i)
         IN  IF e > 0
             THEN <<"W", "Q">> \o v \o <<"Q">> \o SubFrom(s, v, e)
             ELSE <<s[i]>> \o SubFrom(s, v, i + 1)

(***************************************************************************)
(* Lines of a text, for stating the frame properties                       *)
(***************************************************************************)
RECURSIVE SplitLines(_)
\* s.split("\n")
SplitLines(s) ==
    IF \A k \in 1..Len(s) : s[k] # "N" THEN <<s>>
    ELSE LET k == CHOOSE k \in 1..Len(s) :
                      s[k] = "N" /\ \A m \in 1..(k - 1) : s[m] # "N"
         IN  <<SubSeq(s, 1, k - 1)>> \o SplitLines(SubSeq(s, k + 1, Len(s)))

\* The line, taken alone, starts with  version = "..."
IsVersionLine(l) == MatchEnd(l, 1) > 0

\* Index of the first version line of the text, 0 if it has none.
FirstVersionLine(s) ==
    LET L == SplitLines(s)
        K == {k \in 1..Len(L) : IsVersionLine(L[k])}
    IN  IF K = {} THEN 0 ELSE CHOOSE k \in K : \A m \in K : k <= m

\* Exactly three non-empty runs of digits separated by single dots.
IsThreeRuns(s) ==
    \E i, j \in 1..Len(s) :
        /\ 1 < i /\ i + 1 < j /\ j < Len(s)
        /\ s[i] = "." /\ s[j] = "."
        /\ \A k \in (1..Len(s)) \ {i, j} : s[k] \in Digit

(***************************************************************************)
(* validate_version called alone                                           *)
(***************************************************************************)
VersionChars == {"1", ".", "a", "N"}
Strings == UNION {[1..n -> VersionChars] : n \in 0..MaxLen}

Idle ==
    /\ argv = <<>> /\ depsOk = TRUE
    /\ manifest = NoFile /\ backup = NoFile /\ dist = "absent"
    /\ inMain = FALSE
    /\ current_version = None /\ content = <<>>
    /\ success = FALSE /\ response = <<>> /\ result = FALSE /\ raised = "none"
    /\ exitCode = -1 /\ msg = "" /\ cmds = <<>> /\ prompts = 0
    /\ restoreCalls = 0 /\ mutated = FALSE
    /\ manifest0 = NoFile /\ backup0 = NoFile /\ dist0 = "absent"

InitValidate ==
    /\ Idle
    /\ pc = "vv_call"
    /\ version \in Strings

ValidateCall ==
    /\ pc = "vv_call"
    /\ result' = validate_version(version)
    /\ pc' = "vv_done"
    /\ UNCHANGED <<argv, depsOk, manifest, backup, dist, inMain, version,
                   current_version, content, success, response, raised,
                   exitCode, msg, cmds, prompts, restoreCalls, mutated,
                   manifest0, backup0, dist0>>

NextValidate == ValidateCall

SpecValidate == InitValidate /\ [][NextValidate]_vars

\* C2: validate_version(s) is true iff s is exactly three non-empty runs of
\* decimal digits separated by single dots, with nothing before or after
\* (in particular no trailing newline).
C2_ValidateIffThreeRuns ==
    pc = "vv_done" => (result <=> IsThreeRuns(version))


(***************************************************************************)
(* restore_backup and update_version                                       *)
(***************************************************************************)
Exceptions == {"KeyboardInterrupt", "Exception"}

\* All the prefixes of d: what a destination file can hold when a copy or a
\* write that truncated it is cut short (the whole of d if it fails afterwards).
Prefixes(d) == {SubSeq(d, 1, k) : k \in 0..Len(d)}

restore_backup_KeepsBackup(m, b) ==
    IF b.exists THEN [manifest |-> File(b.data), backup |-> b]
    ELSE [manifest |-> m, backup |-> b]

\* restore_backup() on the files m (manifest) and b (backup): the files after it.
restore_backup(m, b) ==
    IF b.exists THEN [manifest |-> File(b.data), backup |-> NoFile]
    ELSE [manifest |-> m, backup |-> b]

\* sys.exit(code) in main, after printing text.
Exit(code, text) ==
    /\ exitCode' = code
    /\ msg' = text
    /\ pc' = "done"

\* One of main's two except clauses, entered with the files m and b.
Handler(m, b, e) ==
    LET r == restore_backup(m, b)
    IN  /\ manifest' = r.manifest
        /\ backup' = r.backup
        /\ restoreCalls' = restoreCalls + 1
        /\ Exit(1, IF e = "KeyboardInterrupt"
                   THEN "Deployment interrupted by user"
                   ELSE "Unexpected error")

\* update_version is left with the files m and b.  e = "none": it returns r.
\* e = "Exception": its own except clause catches it and returns False.
\* e = "KeyboardInterrupt": not an Exception, it propagates to the caller.
\* In main a False result ends the run at once with exit code 1, without
\* restore_backup; a KeyboardInterrupt reaches main's handler.
UvLeave(m, b, r, e) ==
    IF e = "KeyboardInterrupt"
    THEN /\ raised' = e
         /\ result' = result
         /\ IF inMain
            THEN Handler(m, b, e)
            ELSE /\ manifest' = m /\ backup' = b
                 /\ pc' = "uv_done"
                 /\ UNCHANGED <<restoreCalls, exitCode, msg>>
    ELSE /\ raised' = "none"
         /\ result' = (r /\ e = "none")
         /\ manifest' = m /\ backup' = b
         /\ UNCHANGED restoreCalls
         /\ IF inMain
            THEN IF r /\ e = "none"
                 THEN pc' = "clean" /\ UNCHANGED <<exitCode, msg>>
                 ELSE Exit(1, "Failed to update version in pyproject.toml")
            ELSE /\ pc' = "uv_done"
                 /\ exitCode' = exitCode
                 /\ msg' = IF e = "Exception" THEN "Failed to update version" ELSE msg

UvFrame ==
    UNCHANGED <<argv, depsOk, dist, inMain, version, current_version, success,
                response, cmds, prompts, manifest0, backup0, dist0>>

\* shutil.copy('pyproject.toml', 'pyproject.toml.backup')
UvCopy ==
    /\ pc = "uv_copy"
    /\ \/ /\ manifest.exists
          /\ backup' = File(manifest.data)
          /\ pc' = "uv_read"
          /\ UNCHANGED <<manifest, content, result, raised, exitCode, msg,
                         restoreCalls>>
       \/ \E e \in Exceptions :
          \E b \in {backup} \cup
                   (IF manifest.exists
                    THEN {File(d) : d \in Prefixes(manifest.data)} ELSE {}) :
             /\ manifest.exists \/ e = "Exception"
             /\ UvLeave(manifest, b, FALSE, e)
             /\ UNCHANGED content
    /\ UNCHANGED mutated
    /\ UvFrame

\* with open('pyproject.toml', 'r') as f: content = f.read()
UvRead ==
    /\ pc = "uv_read"
    /\ content' = manifest.data
    /\ pc' = "uv_write"
    /\ UNCHANGED <<manifest, backup, result, raised, exitCode, msg, restoreCalls>>
    /\ UNCHANGED mutated
    /\ UvFrame

\* updated_content = re.sub(...); open('pyproject.toml', 'w'); f.write(...)
UvWrite ==
    /\ pc = "uv_write"
    /\ LET updated_content == SubFrom(content, version, 1)
       IN  \/ /\ manifest' = File(updated_content)
              /\ pc' = "uv_verify"
              /\ UNCHANGED <<backup, result, raised, exitCode, msg, restoreCalls>>
           \/ \E e \in Exceptions : \E d \in Prefixes(updated_content) :
                 UvLeave(File(d), backup, FALSE, e)
    /\ UNCHANGED content
    /\ mutated' = TRUE
    /\ UvFrame

\* if get_current_version() == new_version: return True
\* else: shutil.copy('pyproject.toml.backup', 'pyproject.toml'); return False
UvVerify ==
    /\ pc = "uv_verify"
    /\ IF get_current_version(manifest) = Some(version)
       THEN UvLeave(manifest, backup, TRUE, "none")
       ELSE UvLeave(File(backup.data), backup, FALSE, "none")
    /\ UNCHANGED content
    /\ UNCHANGED mutated
    /\ UvFrame

\* An exception raised inside update_version between two of its file
\* operations (reading the manifest, or re-reading it for the verification).
UvFault ==
    /\ pc \in {"uv_read", "uv_write", "uv_verify"}
    /\ \E e \in Exceptions : UvLeave(manifest, backup, FALSE, e)
    /\ UNCHANGED content
    /\ UNCHANGED mutated
    /\ UvFrame

(***************************************************************************)
(* update_version called alone                                             *)
(***************************************************************************)
LineTemplates ==
    { <<"W", "Q", "1", "Q">>,         \* version = "1"
      <<"W", "Q", "2", "Q", "a">>,    \* version = "2"a
      <<"W", "Q", "1">>,              \* version = "1      (quote left open)
      <<"a", "Q", "b">>,              \* a"b
      <<"a">>,                        \* a
      <<"W", "Q", "Q">>,              \* version = ""
      <<"S", "W", "Q", "1", "Q">> }   \*  version = "1"    (indented)

RECURSIVE JoinLines(_)
\* "\n".join(L)
JoinLines(L) ==
    IF Len(L) = 0 THEN <<>>
    ELSE IF Len(L) = 1 THEN L[1]
    ELSE L[1] \o <<"N">> \o JoinLines(Tail(L))

\* Texts of at most MaxLines lines, with or without a final newline.
Manifests ==
    LET Ls == UNION {[1..n -> LineTemplates] : n \in 0..MaxLines}
    IN  {JoinLines(L) : L \in Ls} \cup {JoinLines(L) \o <<"N">> : L \in Ls}

NewVersions ==
    { <<"9", ".", "9", ".", "9">>,
      <<"9", ".", "9", ".", "9", "N">>,
      <<"9", "Q", "9">>,
      <<>> }

InitUpdate ==
    /\ argv = <<>> /\ depsOk = TRUE
    /\ manifest \in {NoFile} \cup {File(d) : d \in Manifests}
    /\ backup = NoFile /\ dist = "absent"
    /\ inMain = FALSE
    /\ version \in NewVersions
    /\ current_version = None /\ content = <<>>
    /\ success = FALSE /\ response = <<>> /\ result = FALSE /\ raised = "none"
    /\ exitCode = -1 /\ msg = "" /\ cmds = <<>> /\ prompts = 0
    /\ restoreCalls = 0 /\ mutated = FALSE
    /\ manifest0 = manifest /\ backup0 = backup /\ dist0 = dist
    /\ pc = "uv_copy"

NextUpdate == UvCopy \/ UvRead \/ UvWrite \/ UvVerify \/ UvFault

SpecUpdate == InitUpdate /\ [][NextUpdate]_vars

\* update_version returned True / returned False.
UvSucceeded == pc = "uv_done" /\ raised = "none" /\ result
UvFailed == pc = "uv_done" /\ raised = "none" /\ ~result

\* Every match of the version pattern in s lies within one line.
MatchesWithinLines(s) ==
    \A i \in 1..Len(s) :
        MatchEnd(s, i) > 0 =>
            \A k \in i..(MatchEnd(s, i) - 1) : s[k] # "N"

\* C3: write_version changes only the first line that matches
\* version = "..." at the start of a line; every other line, later matching
\* lines included, is the same after the call as before.  (Stated for a
\* valid new version and a manifest whose matches each lie within one line.)
C3_OnlyFirstVersionLineChanges ==
    (UvSucceeded /\ IsThreeRuns(version) /\ MatchesWithinLines(manifest0.data)) =>
        LET L0 == SplitLines(manifest0.data)
            L1 == SplitLines(manifest.data)
            k == FirstVersionLine(manifest0.data)
        IN  /\ Len(L1) = Len(L0)
            /\ \A j \in 1..Len(L0) : j # k => L1[j] = L0[j]

\* C4: round trip: for a manifest with a version line and a valid version v,
\* after write_version(v) succeeds read_current_version() returns exactly v
\* and every non-version line is the same as in the original.
C4_RoundTrip ==
    (/\ UvSucceeded
     /\ IsThreeRuns(version)
     /\ FirstVersionLine(manifest0.data) # 0) =>
        LET L0 == SplitLines(manifest0.data)
            L1 == SplitLines(manifest.data)
        IN  /\ get_current_version(manifest) = Some(version)
            /\ Len(L1) = Len(L0)
            /\ \A j \in 1..Len(L0) : ~IsVersionLine(L0[j]) => L1[j] = L0[j]

\* C5: whenever write_version reports failure (verification mismatch, or an
\* error while backing up or writing), the manifest is as it was before the call.
C5_FailureLeavesManifest ==
    UvFailed => manifest = manifest0


(***************************************************************************)
(* main                                                                    *)
(***************************************************************************)
Whitespace == {"S", "N"}

RECURSIVE LStrip(_)
LStrip(s) == IF Len(s) > 0 /\ s[1] \in Whitespace THEN LStrip(Tail(s)) ELSE s

RECURSIVE RStrip(_)
RStrip(s) ==
    IF Len(s) > 0 /\ s[Len(s)] \in Whitespace
    THEN RStrip(SubSeq(s, 1, Len(s) - 1)) ELSE s

\* str.strip()
Strip(s) == RStrip(LStrip(s))

\* str.lower()
Lower(s) == [i \in 1..Len(s) |-> IF s[i] = "Y" THEN "y" ELSE s[i]]

AffirmativeExact(r) == r = <<"y">>

\* input(...).strip().lower() == 'y'
Affirmative(r) == Lower(Strip(r)) = <<"y">>

Responses ==
    { <<"y">>, <<"Y">>, <<"S", "y", "S">>, <<"n">>, <<>>, <<"y", "y">> }

MainFrame ==
    UNCHANGED <<argv, depsOk, inMain, mutated, manifest0, backup0, dist0>>

\* if len(sys.argv) != 2: ... sys.exit(1);  version = sys.argv[1]
CheckArgs ==
    /\ pc = "start"
    /\ IF Len(argv) # 1
       THEN Exit(1, "No version number provided!") /\ UNCHANGED version
       ELSE /\ version' = argv[1]
            /\ pc' = "validate"
            /\ UNCHANGED <<exitCode, msg>>
    /\ UNCHANGED <<manifest, backup, dist, current_version, content, success,
                   response, result, raised, cmds, prompts, restoreCalls>>
    /\ MainFrame

\* if not validate_version(version): ... sys.exit(1)
ValidateArg ==
    /\ pc = "validate"
    /\ result' = validate_version(version)
    /\ IF ~validate_version(version)
       THEN Exit(1, "Invalid version format!")
       ELSE pc' = "exists" /\ UNCHANGED <<exitCode, msg>>
    /\ UNCHANGED <<manifest, backup, dist, version, current_version, content,
                   success, response, raised, cmds, prompts, restoreCalls>>
    /\ MainFrame

\* if not os.path.exists('pyproject.toml'): ... sys.exit(1)
CheckManifest ==
    /\ pc = "exists"
    /\ IF ~manifest.exists
       THEN Exit(1, "pyproject.toml not found in current directory!")
       ELSE pc' = "deps" /\ UNCHANGED <<exitCode, msg>>
    /\ UNCHANGED <<manifest, backup, dist, version, current_version, content,
                   success, response, result, raised, cmds, prompts,
                   restoreCalls>>
    /\ MainFrame

\* if not check_dependencies(): sys.exit(1)
CheckDeps ==
    /\ pc = "deps"
    /\ IF ~depsOk
       THEN Exit(1, "Missing dependency")
       ELSE pc' = "current" /\ UNCHANGED <<exitCode, msg>>
    /\ UNCHANGED <<manifest, backup, dist, version, current_version, content,
                   success, response, result, raised, cmds, prompts,
                   restoreCalls>>
    /\ MainFrame

GetCurrent_BackupFirst ==
    /\ pc = "current"
    /\ current_version' = get_current_version(manifest)
    /\ backup' = File(manifest.data)
    /\ IF ~get_current_version(manifest).some
       THEN Exit(1, "Could not determine current version from pyproject.toml")
       ELSE pc' = "prompt1" /\ UNCHANGED <<exitCode, msg>>
    /\ UNCHANGED <<manifest, dist, version, content, success, response,
                   result, raised, cmds, prompts, restoreCalls>>
    /\ MainFrame

\* current_version = get_current_version(); if not current_version: ... sys.exit(1)
GetCurrent ==
    /\ pc = "current"
    /\ current_version' = get_current_version(manifest)
    /\ IF ~get_current_version(manifest).some
       THEN Exit(1, "Could not determine current version from pyproject.toml")
       ELSE pc' = "prompt1" /\ UNCHANGED <<exitCode, msg>>
    /\ UNCHANGED <<manifest, backup, dist, version, content, success, response,
                   result, raised, cmds, prompts, restoreCalls>>
    /\ MainFrame

Prompt1_BackupFirst ==
    /\ pc = "prompt1"
    /\ \E r \in Responses :
          /\ response' = r
          /\ IF ~Affirmative(r)
             THEN Exit(0, "Deployment cancelled")
             ELSE pc' = "update" /\ UNCHANGED <<exitCode, msg>>
    /\ prompts' = prompts + 1
    /\ backup' = File(manifest.data)
    /\ UNCHANGED <<manifest, dist, version, current_version, content,
                   success, result, raised, cmds, restoreCalls>>
    /\ MainFrame

\* response = input("Do you want to deploy ...").strip().lower()
\* if response != 'y': ... sys.exit(0)
Prompt1 ==
    /\ pc = "prompt1"
    /\ \E r \in Responses :
          /\ response' = r
          /\ IF ~Affirmative(r)
             THEN Exit(0, "Deployment cancelled")
             ELSE pc' = "update" /\ UNCHANGED <<exitCode, msg>>
    /\ prompts' = prompts + 1
    /\ UNCHANGED <<manifest, backup, dist, version, current_version, content,
                   success, result, raised, cmds, restoreCalls>>
    /\ MainFrame

\* An exception raised before the try block is caught by nothing: the
\* interpreter prints a traceback and ends.  An uncaught KeyboardInterrupt
\* ends the process by SIGINT (status 130), any other exception with status 1.
RaiseOutsideTry ==
    /\ pc \in {"start", "validate", "exists", "deps", "current", "prompt1"}
    /\ \E e \in Exceptions :
          Exit(IF e = "KeyboardInterrupt" THEN 130 ELSE 1, "Traceback")
    /\ UNCHANGED <<manifest, backup, dist, version, current_version, content,
                   success, response, result, raised, cmds, prompts,
                   restoreCalls>>
    /\ MainFrame

\* try: print_step("Updating version ..."); update_version(version)
CallUpdate ==
    /\ pc = "update"
    /\ pc' = "uv_copy"
    /\ UNCHANGED <<manifest, backup, dist, version, current_version, content,
                   success, response, result, raised, exitCode, msg, cmds,
                   prompts, restoreCalls>>
    /\ MainFrame

AllDist == {"absent", "empty", "nonempty"}

\* What the command can leave in dist/, given its exit status.
CommandEffect(name, ok, d) ==
    CASE name = "clean" -> IF ok THEN {"absent"} ELSE {d, "absent"}
      [] name = "build" -> AllDist
      [] OTHER -> {d}

\* success, _ = run_command(command, description)
run_command(name, next) ==
    /\ \E ok \in BOOLEAN : \E d \in CommandEffect(name, ok, dist) :
          /\ success' = ok
          /\ dist' = d
    /\ cmds' = Append(cmds, name)
    /\ pc' = next
    /\ UNCHANGED <<manifest, backup, version, current_version, content,
                   response, result, raised, exitCode, msg, prompts,
                   restoreCalls>>
    /\ MainFrame

\* if not success: restore_backup(); sys.exit(1)
IfNotSuccess_NoRestore(next) ==
    /\ IF ~success
       THEN /\ Exit(1, "command failed")
            /\ UNCHANGED <<manifest, backup, restoreCalls>>
       ELSE /\ pc' = next
            /\ UNCHANGED <<manifest, backup, restoreCalls, exitCode, msg>>
    /\ UNCHANGED <<dist, version, current_version, content, success, response,
                   result, raised, cmds, prompts>>
    /\ MainFrame

IfNotSuccess_Continues(next) ==
    /\ IF ~success
       THEN LET r == restore_backup(manifest, backup)
            IN  /\ manifest' = r.manifest
                /\ backup' = r.backup
                /\ restoreCalls' = restoreCalls + 1
                /\ pc' = next
                /\ UNCHANGED <<exitCode, msg>>
       ELSE /\ pc' = next
            /\ UNCHANGED <<manifest, backup, restoreCalls, exitCode, msg>>
    /\ UNCHANGED <<dist, version, current_version, content, success, response,
                   result, raised, cmds, prompts>>
    /\ MainFrame

IfNotSuccess(next) ==
    /\ IF ~success
       THEN LET r == restore_backup(manifest, backup)
            IN  /\ manifest' = r.manifest
                /\ backup' = r.backup
                /\ restoreCalls' = restoreCalls + 1
                /\ Exit(1, "command failed")
       ELSE /\ pc' = next
            /\ UNCHANGED <<manifest, backup, restoreCalls, exitCode, msg>>
    /\ UNCHANGED <<dist, version, current_version, content, success, response,
                   result, raised, cmds, prompts>>
    /\ MainFrame

\* Step 1: rm -rf dist/ *.egg-info/ build/
RunClean == pc = "clean" /\ run_command("clean", "after_clean")

AfterClean == pc = "after_clean" /\ IfNotSuccess("build")

\* Step 2: python -m build
RunBuild == pc = "build" /\ run_command("build", "after_build")

AfterBuild == pc = "after_build" /\ IfNotSuccess("check_dist")

DistHasFiles_ExistsOnly(d) == d # "absent"

\* dist_path.exists() and any(dist_path.iterdir())
DistHasFiles(d) == d = "nonempty"

\* if not dist_path.exists() or not any(dist_path.iterdir()):
\*     ... restore_backup(); sys.exit(1)
CheckDist ==
    /\ pc = "check_dist"
    /\ IF ~DistHasFiles(dist)
       THEN LET r == restore_backup(manifest, backup)
            IN  /\ manifest' = r.manifest
                /\ backup' = r.backup
                /\ restoreCalls' = restoreCalls + 1
                /\ Exit(1, "No files found in dist/ directory after build")
       ELSE /\ pc' = "prompt2"
            /\ UNCHANGED <<manifest, backup, restoreCalls, exitCode, msg>>
    /\ UNCHANGED <<dist, version, current_version, content, success, response,
                   result, raised, cmds, prompts>>
    /\ MainFrame

Prompt2_Reverts ==
    /\ pc = "prompt2"
    /\ \E r \in Responses :
          /\ response' = r
          /\ IF ~Affirmative(r)
             THEN LET f == restore_backup(manifest, backup)
                  IN  /\ manifest' = f.manifest
                      /\ backup' = f.backup
                      /\ Exit(0, "Upload cancelled. Build artifacts remain in dist/")
                      /\ UNCHANGED restoreCalls
             ELSE /\ pc' = "upload"
                  /\ UNCHANGED <<manifest, backup, restoreCalls, exitCode, msg>>
    /\ prompts' = prompts + 1
    /\ UNCHANGED <<dist, version, current_version, content, success, result,
                   raised, cmds>>
    /\ MainFrame

\* response = input("Continue with PyPI upload? ...").strip().lower()
\* if response != 'y': ... os.remove('pyproject.toml.backup'); sys.exit(0)
\* (os.remove of a missing file raises FileNotFoundError, an Exception.)
Prompt2 ==
    /\ pc = "prompt2"
    /\ \E r \in Responses :
          /\ response' = r
          /\ IF ~Affirmative(r)
             THEN IF backup.exists
                  THEN /\ backup' = NoFile
                       /\ Exit(0, "Upload cancelled. Build artifacts remain in dist/")
                       /\ UNCHANGED <<manifest, restoreCalls>>
                  ELSE Handler(manifest, backup, "Exception")
             ELSE /\ pc' = "upload"
                  /\ UNCHANGED <<manifest, backup, restoreCalls, exitCode, msg>>
    /\ prompts' = prompts + 1
    /\ UNCHANGED <<dist, version, current_version, content, success, result,
                   raised, cmds>>
    /\ MainFrame

\* Step 3: python -m twine upload dist/*
RunUpload == pc = "upload" /\ run_command("upload", "after_upload")

AfterUpload_KeepsBackup ==
    /\ pc = "after_upload"
    /\ IF success
       THEN /\ Exit(0, "Successfully deployed")
            /\ UNCHANGED <<manifest, backup, restoreCalls>>
       ELSE LET r == restore_backup(manifest, backup)
            IN  /\ manifest' = r.manifest
                /\ backup' = r.backup
                /\ restoreCalls' = restoreCalls + 1
                /\ Exit(1, "Upload to PyPI failed!")
    /\ UNCHANGED <<dist, version, current_version, content, success, response,
                   result, raised, cmds, prompts>>
    /\ MainFrame

\* if success: ... os.remove('pyproject.toml.backup'); summary; main returns
\* else: ... restore_backup(); sys.exit(1)
AfterUpload ==
    /\ pc = "after_upload"
    /\ IF success
       THEN IF backup.exists
            THEN /\ backup' = NoFile
                 /\ Exit(0, "Successfully deployed")
                 /\ UNCHANGED <<manifest, restoreCalls>>
            ELSE Handler(manifest, backup, "Exception")
       ELSE LET r == restore_backup(manifest, backup)
            IN  /\ manifest' = r.manifest
                /\ backup' = r.backup
                /\ restoreCalls' = restoreCalls + 1
                /\ Exit(1, "Upload to PyPI failed!")
    /\ UNCHANGED <<dist, version, current_version, content, success, response,
                   result, raised, cmds, prompts>>
    /\ MainFrame

TryPcs ==
    {"update", "clean", "after_clean", "build", "after_build", "check_dist",
     "prompt2", "upload", "after_upload"}

\* except KeyboardInterrupt: ... restore_backup(); sys.exit(1)
\* except Exception as e:    ... restore_backup(); sys.exit(1)
\* for an exception raised in main's try block outside update_version.
RaiseInTry ==
    /\ pc \in TryPcs
    /\ \E e \in Exceptions : Handler(manifest, backup, e)
    /\ UNCHANGED <<dist, version, current_version, content, success, response,
                   result, raised, cmds, prompts>>
    /\ MainFrame

V999 == <<"9", ".", "9", ".", "9">>

Args ==
    { <<>>, <<V999>>, <<V999 \o <<"N">>>>, <<<<"9", ".", "9">>>>, <<V999, V999>> }

MainManifests ==
    { NoFile,
      File(<<"W", "Q", "1", "Q", "N", "a", "N">>),
      File(<<"a", "N", "W", "Q", "1", "Q", "N", "W", "Q", "2", "Q", "N">>),
      File(<<"a", "N">>) }

Init ==
    /\ argv \in Args
    /\ depsOk \in BOOLEAN
    /\ manifest \in MainManifests
    /\ backup \in {NoFile, File(<<"b", "N">>)}
    /\ dist \in AllDist
    /\ inMain = TRUE
    /\ version = <<>>
    /\ current_version = None /\ content = <<>>
    /\ success = FALSE /\ response = <<>> /\ result = FALSE /\ raised = "none"
    /\ exitCode = -1 /\ msg = "" /\ cmds = <<>> /\ prompts = 0
    /\ restoreCalls = 0 /\ mutated = FALSE
    /\ manifest0 = manifest /\ backup0 = backup /\ dist0 = dist
    /\ pc = "start"

Next ==
    \/ CheckArgs \/ ValidateArg \/ CheckManifest \/ CheckDeps \/ GetCurrent
    \/ Prompt1 \/ RaiseOutsideTry \/ CallUpdate
    \/ UvCopy \/ UvRead \/ UvWrite \/ UvVerify \/ UvFault
    \/ RunClean \/ AfterClean \/ RunBuild \/ AfterBuild \/ CheckDist
    \/ Prompt2 \/ RunUpload \/ AfterUpload \/ RaiseInTry

Spec == Init /\ [][Next]_vars

TypeOK ==
    /\ exitCode \in {-1, 0, 1, 130}
    /\ dist \in AllDist
    /\ pc = "done" <=> exitCode # -1


(***************************************************************************)
(* Properties of a run of main                                             *)
(***************************************************************************)
Last(q) == q[Len(q)]

Ran(name) == \E i \in 1..Len(cmds) : cmds[i] = name

\* The operator answered the n-th prompt and main took its cancel branch.
Declined(n) == pc = "done" /\ prompts = n /\ ~Affirmative(response)

\* The last command run exited with a non-zero status.
CommandFailed == cmds # <<>> /\ ~success

\* Where main is right after the command called name has returned.
AfterPc(name) ==
    CASE name = "clean" -> "after_clean"
      [] name = "build" -> "after_build"
      [] OTHER -> "after_upload"

\* C1: every run that exits with code 1 after the manifest has been written
\* ends with the manifest as it was before the run.
C1_ExitOneRestoresManifest ==
    (inMain /\ pc = "done" /\ exitCode = 1 /\ mutated) => manifest = manifest0

EarlyAbortMessages ==
    { "No version number provided!",
      "Invalid version format!",
      "pyproject.toml not found in current directory!",
      "Missing dependency",
      "Could not determine current version from pyproject.toml" }

\* C6: a run that aborts before the first prompt (argument count, version
\* format, missing manifest, missing tool, unreadable current version) exits
\* with code 1, has changed no file and has run no command.
C6_EarlyAbortTouchesNothing ==
    (pc = "done" /\ msg \in EarlyAbortMessages) =>
        /\ exitCode = 1
        /\ prompts = 0
        /\ manifest = manifest0 /\ backup = backup0 /\ dist = dist0
        /\ cmds = <<>>

C6_Witness ==
    /\ pc = "done"
    /\ msg = "Could not determine current version from pyproject.toml"
    /\ manifest.exists /\ depsOk /\ validate_version(version)

\* C7: when the operator declines the first prompt the process exits with
\* code 0, the manifest is unchanged, no backup has been created and no
\* command has been run.
C7_FirstDeclineTouchesNothing ==
    Declined(1) =>
        /\ exitCode = 0
        /\ manifest = manifest0 /\ backup = backup0 /\ dist = dist0
        /\ cmds = <<>>

C7_Witness == Declined(1) /\ response = <<"n">> /\ ~backup0.exists

\* C8: when the operator declines the second prompt the process exits with
\* code 0, the manifest holds the new version, the backup file is gone, the
\* built artifacts are on disk and the upload command has not been run.
C8_SecondDeclineKeepsNewVersion ==
    Declined(2) =>
        /\ exitCode = 0
        /\ get_current_version(manifest) = Some(version)
        /\ ~backup.exists
        /\ dist = "nonempty"
        /\ ~Ran("upload")

C8_Witness ==
    /\ Declined(2) /\ response = <<"n">>
    /\ get_current_version(manifest0) # Some(version)

\* C9: when one of the clean, build and upload commands exits with a non-zero
\* status, no later step is run, and the run ends with exit code 1, the
\* manifest restored to its pre-run content and the backup file removed.
C9_CommandFailureRollsBack ==
    CommandFailed =>
        /\ pc \in {AfterPc(Last(cmds)), "done"}
        /\ pc = "done" =>
              /\ exitCode = 1
              /\ manifest = manifest0
              /\ ~backup.exists

C9_Witness ==
    /\ CommandFailed /\ pc = "done" /\ msg = "command failed"
    /\ Last(cmds) = "build"

\* The build command exited with status 0 and dist/ is missing or empty.
BuildLeftNothing ==
    /\ cmds # <<>> /\ Last(cmds) = "build" /\ success
    /\ dist \in {"absent", "empty"}

\* C10: when the build command exits with status 0 but dist/ is missing or
\* empty, the run restores the manifest and exits with code 1, without the
\* second prompt and without running the upload command.
C10_EmptyDistRollsBack ==
    BuildLeftNothing =>
        /\ pc \in {"after_build", "check_dist", "done"}
        /\ prompts = 1
        /\ pc = "done" =>
              /\ exitCode = 1
              /\ manifest = manifest0

C10_Witness ==
    /\ BuildLeftNothing /\ pc = "done" /\ dist = "empty"
    /\ msg = "No files found in dist/ directory after build"


\* The answer is a single y or Y with nothing but whitespace around it.
IsYes(r) ==
    \E i \in 1..Len(r) :
        /\ r[i] \in {"y", "Y"}
        /\ \A j \in (1..Len(r)) \ {i} : r[j] \in Whitespace

\* main ended in one of its two cancel branches.
Cancelled ==
    /\ pc = "done" /\ exitCode = 0
    /\ msg \in { "Deployment cancelled",
                 "Upload cancelled. Build artifacts remain in dist/" }

\* C11 (as claimed): each prompt takes only the exact input y as
\* affirmative; every other answer, "Y" and " y " included, cancels with
\* exit code 0.
C11_OnlyExactLowercaseY ==
    prompts >= 1 => (Cancelled <=> response # <<"y">>)

\* C11 (amended): each prompt takes an answer as affirmative exactly when it
\* is y or Y with optional surrounding whitespace; every other answer cancels
\* with exit code 0.
C11_YesAfterStripAndLower ==
    prompts >= 1 => (Cancelled <=> ~IsYes(response))

C11_Witness ==
    /\ prompts = 2 /\ pc = "upload"
    /\ response = <<"S", "y", "S">>

SuccessMessages ==
    { "Successfully deployed",
      "Deployment cancelled",
      "Upload cancelled. Build artifacts remain in dist/" }

\* C12: every run ends with exit code 0 or 1: 0 exactly when the upload
\* succeeded or the operator declined a prompt, 1 for every failure and for
\* an operator interrupt at any point, the wait at the first prompt included.
C12_ExitCodeZeroOrOne ==
    pc = "done" =>
        /\ exitCode \in {0, 1}
        /\ exitCode = 0 <=> msg \in SuccessMessages


\* A step of the run in which an exception is raised inside the try block:
\* in main itself, or in update_version during or between its file operations.
RaisedInTryStep ==
    \/ RaiseInTry
    \/ UvFault
    \/ UvWrite /\ pc' # "uv_verify"
    \/ UvCopy /\ pc' # "uv_read"

\* C13: an operator interrupt or any other unexpected error raised after the
\* mutation of the manifest has begun (inside write_version included) causes
\* restore_backup() to be called and the process to exit with code 1.
C13_RaiseAfterMutationRestores ==
    [][(inMain /\ RaisedInTryStep /\ mutated') =>
           (restoreCalls' = restoreCalls + 1 /\ exitCode' = 1)]_vars


(***************************************************************************)
(* restore_backup called alone, twice in a row                             *)
(***************************************************************************)
InitRestore ==
    /\ argv = <<>> /\ depsOk = TRUE
    /\ manifest \in MainManifests
    /\ backup \in {NoFile} \cup {File(d) : d \in Manifests}
    /\ dist = "absent"
    /\ inMain = FALSE
    /\ version = <<>>
    /\ current_version = None /\ content = <<>>
    /\ success = FALSE /\ response = <<>> /\ result = FALSE /\ raised = "none"
    /\ exitCode = -1 /\ msg = "" /\ cmds = <<>> /\ prompts = 0
    /\ restoreCalls = 0 /\ mutated = FALSE
    /\ manifest0 = manifest /\ backup0 = backup /\ dist0 = dist
    /\ pc = "rb_call"

\* restore_backup()
RestoreCall ==
    /\ pc \in {"rb_call", "rb_once"}
    /\ LET r == restore_backup(manifest, backup)
       IN  /\ manifest' = r.manifest
           /\ backup' = r.backup
    /\ restoreCalls' = restoreCalls + 1
    /\ pc' = IF pc = "rb_call" THEN "rb_once" ELSE "rb_twice"
    /\ UNCHANGED <<argv, depsOk, dist, inMain, version, current_version,
                   content, success, response, result, raised, exitCode, msg,
                   cmds, prompts, mutated, manifest0, backup0, dist0>>

NextRestore == RestoreCall

SpecRestore == InitRestore /\ [][NextRestore]_vars

\* C14: restore_backup(): with a backup file, the manifest afterwards has the
\* backup's content and the backup file is gone; without one, nothing
\* changes; two calls in a row leave the same state as one call.
C14_RestoreBackupContract ==
    pc \in {"rb_once", "rb_twice"} =>
        IF backup0.exists
        THEN manifest = File(backup0.data) /\ ~backup.exists
        ELSE manifest = manifest0 /\ backup = backup0

C14_Witness ==
    /\ pc = "rb_twice"
    /\ backup0.exists /\ manifest0.exists
    /\ backup0.data # manifest0.data

\* Positions of main at which a backup made by this run may be on disk.
BackupWindow ==
    {"uv_read", "uv_write", "uv_verify", "clean", "after_clean", "build",
     "after_build", "check_dist", "prompt2", "upload", "after_upload"}

\* C15: in a run that starts without a backup file, a backup file exists only
\* between its creation just before the mutation and the terminal step; at
\* every process exit, the failure of write_version included, none remains.
C15_NoBackupAtExit ==
    (inMain /\ ~backup0.exists) =>
        /\ backup.exists => pc \in BackupWindow
        /\ pc = "done" => ~backup.exists


\* The upload command has been run and exited with status 0.
UploadSucceeded == cmds # <<>> /\ Last(cmds) = "upload" /\ success

HandlerMessages == {"Deployment interrupted by user", "Unexpected error"}

\* C16: when the upload command exits with status 0, the run (unless an
\* interrupt or error then sends it into an except clause) completes with the
\* backup file deleted, the manifest holding the new version and exit code 0.
C16_UploadSuccessCompletes ==
    (UploadSucceeded /\ pc = "done" /\ msg \notin HandlerMessages) =>
        /\ exitCode = 0
        /\ ~backup.exists
        /\ get_current_version(manifest) = Some(version)

C16_Witness ==
    /\ UploadSucceeded /\ pc = "done" /\ msg = "Successfully deployed"
    /\ get_current_version(manifest0) # Some(version)

\* C17: each of clean, build and upload is run at most once and in that
\* order; a command is run only if every earlier step succeeded; upload is
\* run only after the manifest was mutated, the build succeeded, dist/ was
\* found non-empty and both prompts were answered affirmatively.
C17_CommandsInOrderAfterSuccess ==
    [][cmds' # cmds =>
         \/ /\ cmds = <<>> /\ cmds' = <<"clean">>
            /\ mutated /\ result
            /\ prompts = 1 /\ IsYes(response)
         \/ /\ cmds = <<"clean">> /\ cmds' = <<"clean", "build">>
            /\ success
         \/ /\ cmds = <<"clean", "build">>
            /\ cmds' = <<"clean", "build", "upload">>
            /\ success /\ dist = "nonempty"
            /\ mutated /\ result
            /\ prompts = 2 /\ IsYes(response)]_vars

C17_Witness == cmds = <<"clean", "build", "upload">> /\ pc = "after_upload"

\* C18: once the upload command has succeeded, the manifest holds the new
\* version at process exit, even if an interrupt or unexpected error occurs
\* between the upload's success and the deletion of the backup file.
C18_PublishedVersionStays ==
    (UploadSucceeded /\ pc = "done") =>
        get_current_version(manifest) = Some(version)

\* C19: the manifest is only ever overwritten from a backup completely
\* written during the current run (whose content is the pre-run manifest): a
\* backup left by an earlier run, or one whose copy was cut short, is never
\* copied over the manifest by restore_backup().
C19_RestoreOnlyFromOwnBackup ==
    (inMain /\ restoreCalls > 0) => manifest = manifest0

=============================================================================
